---- MODULE Spec2Model ----
(***************************************************************************)
(* Model of the generation core of AI-Assignment-Helper:                   *)
(*   - getFriendlyErrorMessage  (components/ChatView.tsx), the classifier  *)
(*   - generatePresentation     (services/geminiService.ts), the pipeline  *)
(*   - useVeo.startGeneration   (hooks/useVeo.ts), the video poller        *)
(*   - InputBar.handleSubmit and ChatView.handleSendMessage, the dispatcher*)
(* Each part has its own specification over the shared variables; a part's *)
(* specification leaves the other parts' variables at their initial value. *)
(***************************************************************************)
EXTENDS Integers, Sequences, FiniteSets, TLC

(***************************************************************************)
(* Bounds of the model.                                                    *)
(***************************************************************************)
MaxMsgLen == 2

MaxTextLen == 3

MaxSlides == 2

MaxGens == 2

MaxPolls == 3

MaxRequests == 2

MaxVersions == 1

MaxCards == 2

MaxCardSlides == 4

(***************************************************************************)
(* The state of the classifier.                                            *)
(***************************************************************************)
VARIABLES
    rawFailure,     \* classifier: the value handed to getFriendlyErrorMessage
    friendly,       \* classifier: the string it returned, or <<>> before the call
    earlier,        \* classifier: the strings earlier calls returned for rawFailure
    otherCalls      \* classifier: the calls made so far with other failures

(***************************************************************************)
(* Text.  A message is a sequence of words; a word is the unit over which  *)
(* String.includes and the regular expressions of the source are decided.  *)
(* The vocabulary holds every pattern the classifier looks for, a variant  *)
(* of each in another letter case, and a word that matches nothing.        *)
(***************************************************************************)
Words ==
    { "API key not valid", "api key not valid",
      "429",
      "rate limit", "Rate Limit",
      "safety", "SAFETY",
      "blocked",
      "Requested entity was not found.", "requested entity was not found.",
      "other" }

\* String.prototype.toLowerCase on a word (what the /i flag compares by).
Lower(w) ==
    CASE w = "API key not valid" -> "api key not valid"
      [] w = "Rate Limit" -> "rate limit"
      [] w = "SAFETY" -> "safety"
      [] w = "Requested entity was not found." -> "requested entity was not found."
      [] OTHER -> w

\* errorMessage.includes(pat): case-sensitive search.
Includes(msg, pat) == \E i \in 1..Len(msg) : msg[i] = pat

\* /pat/i.test(errorMessage): case-insensitive search.
TestI(msg, pat) == \E i \in 1..Len(msg) : Lower(msg[i]) = pat

Messages == UNION { [1..n -> Words] : n \in 0..MaxMsgLen }

\* A thrown value: an Error (name "Error") or a SyntaxError, with its message.
ErrorNames == { "Error", "SyntaxError" }

RawFailures == [ name : ErrorNames, message : Messages ]

(***************************************************************************)
(* The fixed user-facing messages of getFriendlyErrorMessage.              *)
(***************************************************************************)
AuthenticationText == "Authentication Error: The API key is invalid. Please check your setup."

RateLimitedText == "Rate Limit Exceeded: You've sent too many requests in a short period. Please wait and try again later."

ContentBlockedText == "Content Safety: The request was blocked due to safety settings. Please adjust your prompt."

DataFormatText == "Invalid Response: The AI returned a malformed response. This might be a temporary issue. Please try again."

CredentialScopeText == "API Key Error: The selected API key may not have the necessary permissions or billing enabled for this model. Please select a different key."

UnknownPrefix == "An unexpected error occurred: "

\* error.message || String(error): an empty message is falsy, and String of
\* an Error whose message is empty is its name.
ErrorMessageOf(error) ==
    IF error.message # <<>> THEN error.message ELSE <<error.name>>

\* Mutant of the classifier: the '429' test is dropped from the rate rule.
GetFriendlyErrorMessageNo429(error) ==
    LET errorMessage == ErrorMessageOf(error) IN
    IF Includes(errorMessage, "API key not valid") THEN <<AuthenticationText>>
    ELSE IF TestI(errorMessage, "rate limit") THEN <<RateLimitedText>>
    ELSE IF TestI(errorMessage, "safety") \/ TestI(errorMessage, "blocked")
         THEN <<ContentBlockedText>>
    ELSE IF error.name = "SyntaxError" THEN <<DataFormatText>>
    ELSE IF Includes(errorMessage, "Requested entity was not found.")
         THEN <<CredentialScopeText>>
    ELSE <<UnknownPrefix>> \o errorMessage

\* Mutant of the classifier: the fallback drops the original message.
GetFriendlyErrorMessageNoDetail(error) ==
    LET errorMessage == ErrorMessageOf(error) IN
    IF Includes(errorMessage, "API key not valid") THEN <<AuthenticationText>>
    ELSE IF Includes(errorMessage, "429") \/ TestI(errorMessage, "rate limit")
         THEN <<RateLimitedText>>
    ELSE IF TestI(errorMessage, "safety") \/ TestI(errorMessage, "blocked")
         THEN <<ContentBlockedText>>
    ELSE IF error.name = "SyntaxError" THEN <<DataFormatText>>
    ELSE IF Includes(errorMessage, "Requested entity was not found.")
         THEN <<CredentialScopeText>>
    ELSE <<UnknownPrefix>>

\* Mutant of the classifier: the SyntaxError test comes first.
GetFriendlyErrorMessageSyntaxFirst(error) ==
    LET errorMessage == ErrorMessageOf(error) IN
    IF error.name = "SyntaxError" THEN <<DataFormatText>>
    ELSE IF Includes(errorMessage, "API key not valid") THEN <<AuthenticationText>>
    ELSE IF Includes(errorMessage, "429") \/ TestI(errorMessage, "rate limit")
         THEN <<RateLimitedText>>
    ELSE IF TestI(errorMessage, "safety") \/ TestI(errorMessage, "blocked")
         THEN <<ContentBlockedText>>
    ELSE IF Includes(errorMessage, "Requested entity was not found.")
         THEN <<CredentialScopeText>>
    ELSE <<UnknownPrefix>> \o errorMessage

\* Mutant of the classifier: the rate expression carries the g flag and is
\* kept between calls, so a second test starts from the lastIndex of the
\* first and misses the match.
GetFriendlyErrorMessageSticky(error) ==
    LET errorMessage == ErrorMessageOf(error) IN
    IF Includes(errorMessage, "API key not valid") THEN <<AuthenticationText>>
    ELSE IF Includes(errorMessage, "429")
            \/ (TestI(errorMessage, "rate limit") /\ friendly = <<>> /\ otherCalls = 0)
         THEN <<RateLimitedText>>
    ELSE IF TestI(errorMessage, "safety") \/ TestI(errorMessage, "blocked")
         THEN <<ContentBlockedText>>
    ELSE IF error.name = "SyntaxError" THEN <<DataFormatText>>
    ELSE IF Includes(errorMessage, "Requested entity was not found.")
         THEN <<CredentialScopeText>>
    ELSE <<UnknownPrefix>> \o errorMessage

\* getFriendlyErrorMessage: the returned string, as a sequence of words.
GetFriendlyErrorMessage(error) ==
    LET errorMessage == ErrorMessageOf(error) IN
    IF Includes(errorMessage, "API key not valid") THEN <<AuthenticationText>>
    ELSE IF Includes(errorMessage, "429") \/ TestI(errorMessage, "rate limit")
         THEN <<RateLimitedText>>
    ELSE IF TestI(errorMessage, "safety") \/ TestI(errorMessage, "blocked")
         THEN <<ContentBlockedText>>
    ELSE IF error.name = "SyntaxError" THEN <<DataFormatText>>
    ELSE IF Includes(errorMessage, "Requested entity was not found.")
         THEN <<CredentialScopeText>>
    ELSE <<UnknownPrefix>> \o errorMessage

\* The kind of the taxonomy a returned string stands for.
KindOf(text) ==
    CASE text = <<AuthenticationText>> -> "Authentication"
      [] text = <<RateLimitedText>> -> "RateLimited"
      [] text = <<ContentBlockedText>> -> "ContentBlocked"
      [] text = <<DataFormatText>> -> "DataFormat"
      [] text = <<CredentialScopeText>> -> "CredentialScope"
      [] OTHER -> "Unknown"

(***************************************************************************)
(* Stage-1 response text.  A response is a sequence of tokens:             *)
(*   "FJ" the fence "```json", "F" the bare fence "```", "WS" white space, *)
(*   "DOC" the text of one JSON value, "JUNK" and "BLOCKED" text that is   *)
(*   no JSON ("BLOCKED" holds the word "blocked").                         *)
(***************************************************************************)
TextTokens == { "FJ", "F", "WS", "DOC", "JUNK", "BLOCKED" }

Texts == UNION { [1..n -> TextTokens] : n \in 0..MaxTextLen }

IsWs(t) == t = "WS"

\* "```json" begins with "```", so either fence closes a block.
IsFence(t) == t \in { "F", "FJ" }

RECURSIVE TrimLeft(_)
TrimLeft(s) ==
    IF s # <<>> /\ IsWs(Head(s)) THEN TrimLeft(Tail(s)) ELSE s

RECURSIVE TrimRight(_)
TrimRight(s) ==
    IF s # <<>> /\ IsWs(s[Len(s)]) THEN TrimRight(SubSeq(s, 1, Len(s) - 1)) ELSE s

\* String.prototype.trim
Trim(s) == TrimRight(TrimLeft(s))

\* The tokens the parts of the expression match: "```json", a character
\* that is no white space (where \s* stops), and "```".
FenceJson == { "FJ" }

NotWs == { t \in TextTokens : ~IsWs(t) }

AnyFence == { t \in TextTokens : IsFence(t) }

\* The least index from `from` on whose token is one of `toks`, or 0.
FirstFrom(s, from, toks) ==
    IF \E k \in from..Len(s) : s[k] \in toks
    THEN CHOOSE k \in from..Len(s) :
            s[k] \in toks /\ \A m \in from..(k - 1) : s[m] \notin toks
    ELSE 0

\* match[1] of /```json\s*([\s\S]*?)\s*```/ on the text, or <<>> when the
\* expression does not match (or captures nothing): the capture starts after
\* the first "```json" and the white space that follows it, and ends before
\* the white space that precedes the next fence.
FenceCapture(text) ==
    LET open  == FirstFrom(text, 1, FenceJson)
        start == IF open = 0 THEN 0 ELSE FirstFrom(text, open + 1, NotWs)
        close == IF start = 0 THEN 0 ELSE FirstFrom(text, start, AnyFence)
    IN  IF close = 0 THEN <<>>
        ELSE TrimRight(SubSeq(text, start, close - 1))

\* Lines 204-209: trim, then replace the text by the capture when there is
\* a match with a non-empty capture.
StripFence(text) ==
    LET trimmed == Trim(text)
        cap     == FenceCapture(trimmed)
    IN  IF cap # <<>> THEN cap ELSE trimmed

\* JSON.parse accepts exactly one JSON value with optional white space
\* around it.
JsonValid(text) == Trim(text) = <<"DOC">>

\* The word of the vocabulary a piece of non-JSON text holds.
WordOf(t) == IF t = "BLOCKED" THEN "blocked" ELSE "other"

\* The message of the SyntaxError JSON.parse throws is the engine's: some
\* engines quote the offending text in it, others give a position only.
SyntaxErrorMessages(text) ==
    { <<"other">> } \cup
    { <<"other", WordOf(text[k])>> : k \in { j \in 1..Len(text) : text[j] \in { "JUNK", "BLOCKED" } } }

(***************************************************************************)
(* Presentation documents.                                                 *)
(***************************************************************************)
SlideTitles == { "t1", "t2" }

\* "" stands for a missing or empty imagePrompt (both are falsy).
ImagePrompts == { "", "p" }

ContentFor(title) == IF title = "t1" THEN <<"a">> ELSE <<"a", "b">>

\* imageUrl: "absent" (no such property), "null", or the data URL.
SkeletonSlides ==
    { [slideTitle |-> t, content |-> ContentFor(t), imagePrompt |-> p, imageUrl |-> "absent"] :
        t \in SlideTitles, p \in ImagePrompts }

SlideSeqs == UNION { [1..n -> SkeletonSlides] : n \in 0..MaxSlides }

\* hasSlides = FALSE: the JSON object has no "slides" property.
Docs ==
    { [presentationTitle |-> "T", hasSlides |-> TRUE, slides |-> ss] : ss \in SlideSeqs }
    \cup { [presentationTitle |-> "T", hasSlides |-> FALSE, slides |-> <<>>] }

NoDoc == [presentationTitle |-> "", hasSlides |-> FALSE, slides |-> <<>>]

NoError == [name |-> "", message |-> <<>>]

DataUrl == "data:image/jpeg;base64"

\* Mutant: the object is built anew and the image prompt is not carried over.
WithImageUrlNoPrompt(slide, imageUrl) ==
    [slide EXCEPT !.imageUrl = imageUrl, !.imagePrompt = ""]

\* { ...slide, imageUrl }
WithImageUrl(slide, imageUrl) == [slide EXCEPT !.imageUrl = imageUrl]

\* Line 221: the .then handler of a slide's image call.
OnImageFulfilled(slide, imageUrl) ==
    [state |-> "fulfilled", value |-> WithImageUrl(slide, imageUrl)]

\* Mutant: no .catch handler, the rejection stays on the branch.
OnImageRejectedNoCatch(slide) ==
    [state |-> "rejected", value |-> slide]

\* Lines 222-225: the .catch handler of a slide's image call.
OnImageRejected(slide) ==
    [state |-> "fulfilled", value |-> WithImageUrl(slide, "null")]

\* Lines 218-228: the promise made for one slide by the map callback.
MakePromise(slide) ==
    IF slide.imagePrompt # ""
    THEN [state |-> "pending", value |-> slide]
    ELSE [state |-> "fulfilled", value |-> WithImageUrl(slide, "null")]

\* Mutant: the map callback calls generateImage for every slide.
RECURSIVE CallsFromEverySlide(_, _)
CallsFromEverySlide(slides, i) ==
    IF i > Len(slides) THEN <<>>
    ELSE <<[prompt |-> slides[i].imagePrompt, aspectRatio |-> "16:9", slide |-> i]>>
         \o CallsFromEverySlide(slides, i + 1)

\* The indexes of the slides whose callback issues generateImage, in order.
RECURSIVE CallsFrom(_, _)
CallsFrom(slides, i) ==
    IF i > Len(slides) THEN <<>>
    ELSE IF slides[i].imagePrompt # ""
         THEN <<[prompt |-> slides[i].imagePrompt, aspectRatio |-> "16:9", slide |-> i]>>
              \o CallsFrom(slides, i + 1)
         ELSE CallsFrom(slides, i + 1)

\* The indexes of the branches that are settled when they are made.
RECURSIVE SettledAtStart(_, _)
SettledAtStart(slides, i) ==
    IF i > Len(slides) THEN <<>>
    ELSE IF slides[i].imagePrompt = ""
         THEN <<i>> \o SettledAtStart(slides, i + 1)
         ELSE SettledAtStart(slides, i + 1)

\* Mutant of Promise.all: the values in the order the branches settled.
PromiseAllValuesByCompletion(ps, order) ==
    [i \in 1..Len(ps) |-> ps[order[i]].value]

\* Promise.all: the values by position in the input array.
PromiseAllValues(ps, order) ==
    [i \in 1..Len(ps) |-> ps[i].value]

\* Mutant of the join: it fulfils with the first branch that does.
PromiseAllFulfilsOnFirst(ps) ==
    \E i \in 1..Len(ps) : ps[i].state = "fulfilled"

\* Promise.all fulfils when every promise of the array has fulfilled.
PromiseAllFulfils(ps) ==
    \A i \in 1..Len(ps) : ps[i].state = "fulfilled"

\* Mutant: an empty "slides" array is enriched like any other.
SkipsStage2Never(doc) == FALSE

\* Line 213: !presentationData.slides || presentationData.slides.length === 0
SkipsStage2(doc) == ~doc.hasSlides \/ Len(doc.slides) = 0

\* Mutant: the response schema is set whether or not search is requested.
Stage1ConfigSchemaAlways(useWebSearch) ==
    [ responseSchema |-> TRUE,
      searchTool     |-> useWebSearch,
      contents       |-> IF useWebSearch THEN "presentationPrompt" ELSE "structurePrompt" ]

\* Lines 150-200: the configuration of the stage-1 call.
Stage1Config(useWebSearch) ==
    LET isJsonSchemaAllowed == ~useWebSearch IN
    [ responseSchema |-> isJsonSchemaAllowed,
      searchTool     |-> ~isJsonSchemaAllowed,
      contents       |-> IF isJsonSchemaAllowed THEN "structurePrompt" ELSE "presentationPrompt" ]

\* No stage-1 call made yet.
NoCall ==
    [ useWebSearch |-> FALSE, attempts |-> 0,
      config |-> [responseSchema |-> FALSE, searchTool |-> FALSE, contents |-> ""] ]

\* Mutant: a provider call that failed is issued a second time.
CallsAgainOnce(attempts) == attempts < 2

\* Whether a provider call that has failed is issued again, given the
\* attempts made so far: generateContent (lines 196-200) and generateImage
\* (line 220) are called once each, outside any loop, and neither the .catch
\* of lines 222-225 nor the catch block of handleSendMessage calls again.
CallsAgain(attempts) == FALSE

\* The generateImage calls issued so far for slide i.
AttemptsFor(calls, i) ==
    Cardinality({ k \in 1..Len(calls) : calls[k].slide = i })

PptSuccessText == "Here's the presentation outline I've generated for you."

(***************************************************************************)
(* The video poller, useVeo.                                               *)
(***************************************************************************)
Gens == 1..MaxGens

\* The messages of the errors the provider calls and the fetch may throw.
VeoErrorMessages ==
    { <<>>, <<"other">>, <<"Requested entity was not found.">>,
      <<"other", "Requested entity was not found.">> }

NoLinkMessage == "Video generation finished, but no download link was provided."

VeoKeyErrorText == "API Key error. Please re-select your API key and try again."

VeoUnknownText == "An unknown error occurred during video generation."

\* What a resolved checkVideoStatus reports: not done, done with a download
\* link, done without one, done with an error payload.
PollOutcomes == { "notDone", "doneWithLink", "doneNoLink", "doneWithError" }

\* Line 23: updatedOperation.response?.generatedVideos?.[0]?.video?.uri
HasDownloadLink(outcome) == outcome = "doneWithLink"

\* What a poll met: the outcome checkVideoStatus reported ("none" before the
\* first answer, "rejected" when the call threw), the place inside poll that
\* threw ("none", "check" line 20, "noLink" line 31, "fetch" lines 25-26),
\* the message of the thrown error, and the response the fetch of the
\* download link resolved with ("none" while there is no response).
NotObserved == [outcome |-> "none", thrown |-> "none", message |-> <<>>, fetch |-> "none"]

\* fetch resolves for every HTTP response, whatever its status: with the
\* video ("ok") or with the body of an error answer such as 403 or 404.
FetchResponses == { "ok", "httpError" }

\* The operation handles: the one generateVideo returns (line 17), and for
\* the k-th checkVideoStatus of a generation the handle k it returns
\* (line 20).  NoOperation stands for no handle yet.
NoOperation == -1

InitialOperation == 0

\* Mutant: the timer polls with the handle its poll was called with.
TimerArgumentStale(calledWith, returned) == calledWith

\* Line 34: the argument the timer callback passes to poll.
TimerArgument(calledWith, returned) == returned

\* Lines 42-46: the text setError receives for a caught error message.
VeoErrorText(message) ==
    IF Includes(message, "Requested entity was not found.")
    THEN <<VeoKeyErrorText>>
    ELSE IF message # <<>> THEN message ELSE <<VeoUnknownText>>

(***************************************************************************)
(* The dispatcher: InputBar.handleSubmit and ChatView.handleSendMessage,   *)
(* with the projects App keeps.                                            *)
(***************************************************************************)
\* GenerationMode (types.ts)
Modes ==
    { "Chat", "Generate Image", "Edit Image", "Generate Video", "Analyze Image",
      "Complex Query", "Search Web", "Generate Presentation" }

\* InputBar lines 27-30: the modes that show the file input.
NeedsImageUpload(mode) == mode \in { "Edit Image", "Analyze Image" }

\* "" is a prompt that is blank after trim.
Prompts == { "", "prompt" }

ProjIds == { "projA", "projB" }

\* The errors a service call throws in this part of the model.
ChatErrors ==
    { [name |-> "Error", message |-> <<"other">>],
      [name |-> "SyntaxError", message |-> <<"other">>] }

\* Mutant: the form is never disabled.
InputDisabledNever(loading) == FALSE

\* InputBar lines 92 and 98: disabled={isLoading} on the text area and on
\* the submit button.
InputDisabled(loading) == loading

\* Mutant: the missing-image check is left out of handleSubmit.
SubmitResultNoImageCheck(prompt, mode, hasFile) ==
    IF prompt = "" /\ ~hasFile THEN "ignored" ELSE "sent"

\* InputBar.handleSubmit, lines 38-47: what a submit does.
\*   "ignored": the silent return of line 40,
\*   "alert":   the alert of line 43 ("Please upload an image for this mode."),
\*   "sent":    onSendMessage is called.
SubmitResult(prompt, mode, hasFile) ==
    IF prompt = "" /\ ~hasFile THEN "ignored"
    ELSE IF mode \in { "Edit Image", "Analyze Image" } /\ ~hasFile THEN "alert"
    ELSE "sent"

\* ChatView lines 112-146: the service function the switch calls for a mode.
ServiceCallFor(mode) ==
    CASE mode = "Generate Image" -> "generateImage"
      [] mode = "Edit Image" -> "editImage"
      [] mode = "Analyze Image" -> "analyzeImage"
      [] mode = "Complex Query" -> "runComplexQuery"
      [] mode = "Generate Presentation" -> "generatePresentation"
      [] OTHER -> "runChat"

\* Line 90: userMessageText
UserMessageText(prompt, hasFile) ==
    IF hasFile THEN <<prompt, " (with uploaded image)">> ELSE <<prompt>>

\* Lines 92-96
UserMessage(n, prompt, hasFile) ==
    [id |-> n, sender |-> "user", text |-> UserMessageText(prompt, hasFile),
     isLoading |-> FALSE, attachment |-> "none", reaction |-> "undefined"]

\* Lines 98-103
LoadingMsg(n) ==
    [id |-> n, sender |-> "ai", text |-> <<"Thinking...">>,
     isLoading |-> TRUE, attachment |-> "none", reaction |-> "undefined"]

\* Lines 109-146: aiResponse after the service call of the mode resolved.
AiResponseFor(mode) ==
    CASE mode = "Generate Image" ->
            [text |-> <<"Here is the image you requested.">>, attachment |-> "imageUrl"]
      [] mode = "Edit Image" ->
            [text |-> <<"Here is the edited image.">>, attachment |-> "imageUrl"]
      [] mode = "Analyze Image" ->
            [text |-> <<"analysis">>, attachment |-> "none"]
      [] mode = "Complex Query" ->
            [text |-> <<"answer">>, attachment |-> "references"]
      [] mode = "Generate Presentation" ->
            [text |-> <<PptSuccessText>>, attachment |-> "jsonContent"]
      [] OTHER ->
            [text |-> <<"answer">>, attachment |-> "references"]

\* Line 148: finalHistory
FinalHistory(req) ==
    Append(req.historyForApi,
           [req.loadingMsg EXCEPT !.text = AiResponseFor(req.mode).text,
                                  !.attachment = AiResponseFor(req.mode).attachment,
                                  !.isLoading = FALSE])

\* Mutant: the catch block appends nothing.
ErrorHistoryNothing(req, err) == req.historyForApi

\* Lines 153-154: errorHistory
ErrorHistory(req, err) ==
    Append(req.historyForApi,
           [req.loadingMsg EXCEPT !.text = GetFriendlyErrorMessage(err),
                                  !.isLoading = FALSE])

\* App.handleUpdateProject (lines 67-73) with { history }.
UpdateHistory(projs, projectId, newHistory) ==
    [p \in ProjIds |->
        IF p = projectId THEN [projs[p] EXCEPT !.history = newHistory] ELSE projs[p]]

\* The reactions a button of a message passes to onReaction
\* (App.tsx lines 321 and 326).
Reactions == { "like", "dislike" }

\* ChatView.handleReaction, lines 72-77: newHistory.  The id of the source is
\* the sender's prefix with the time, here the pair of sender and number.
WithReaction(msgs, sender, messageId, reaction) ==
    [k \in 1..Len(msgs) |->
        IF msgs[k].id = messageId /\ msgs[k].sender = sender
        THEN [msgs[k] EXCEPT !.reaction = IF @ = reaction THEN "undefined" ELSE reaction]
        ELSE msgs[k]]

\* Mutant: the snapshot keeps the placeholder.
WithoutLoadingKeepsAll(msgs) == msgs

\* ChatView.handleSaveVersion, line 63: messages.filter(m => !m.isLoading)
WithoutLoading(msgs) ==
    LET NotLoading(m) == ~m.isLoading IN SelectSeq(msgs, NotLoading)

\* ChatView.handleSaveVersion, lines 59-66: newVersion and updatedVersions.
\* The id of a version is the number of the save.
UpdatedVersions(versions, versionId, msgs) ==
    Append(versions, [id |-> versionId, history |-> WithoutLoading(msgs)])

\* App.handleUpdateProject (lines 67-73) with { versions }.
UpdateVersions(projs, projectId, updatedVersions) ==
    [p \in ProjIds |->
        IF p = projectId THEN [projs[p] EXCEPT !.versions = updatedVersions] ELSE projs[p]]

(***************************************************************************)
(* PresentationCard (App.tsx): the navigation between the slides of a      *)
(* presentation.                                                           *)
(***************************************************************************)
Min(a, b) == IF a < b THEN a ELSE b

Max(a, b) == IF a > b THEN a ELSE b

\* No card is mounted.
NoCard == [totalSlides |-> 0, currentSlideIndex |-> 0]

NoCardEvent == [card |-> 0, click |-> "none", from |-> 0]

\* Line 196 and line 234: a card as it mounts for data with n slides.
MountedCard(n) == [totalSlides |-> n, currentSlideIndex |-> 0]

\* Line 201: the card renders its navigation only for data with slides.
RendersSlides(card) == card.totalSlides # 0

\* Mutant: Next without the upper limit.
NextSlideIndexUnclamped(prev, totalSlides) == prev + 1

\* Line 237: Math.min(prev + 1, totalSlides - 1)
NextSlideIndex(prev, totalSlides) == Min(prev + 1, totalSlides - 1)

\* Line 238: Math.max(prev - 1, 0)
PrevSlideIndex(prev) == Max(prev - 1, 0)

\* Lines 235 and 240: currentSlide = data.slides[currentSlideIndex] is an
\* element of the array.
CurrentSlideDefined(card) ==
    card.currentSlideIndex >= 0 /\ card.currentSlideIndex < card.totalSlides

NoReq ==
    [id |-> 0, mode |-> "", call |-> "", projectId |-> "", historyForApi |-> <<>>,
     loadingMsg |-> LoadingMsg(0)]

\* An event other than a submit of the form, as lastEvent records it.
OtherEvent(kind) ==
    [event |-> kind, prompt |-> "", mode |-> "", hasFile |-> FALSE, result |-> ""]

\* The first word of every string getFriendlyErrorMessage returns.
FriendlyHeads ==
    { AuthenticationText, RateLimitedText, ContentBlockedText, DataFormatText,
      CredentialScopeText, UnknownPrefix }

VARIABLES
    pptPc,          \* pipeline: where generatePresentation and its caller stand
    stage1Call,     \* pipeline: the stage-1 call, with the useWebSearch it was made under
    responseText,   \* pipeline: structureResponse.text
    skeleton,       \* pipeline: the value JSON.parse returned
    presentationData, \* pipeline: the object generatePresentation returns
    promises,       \* pipeline: imageGenerationPromises
    settleOrder,    \* pipeline: the branches in the order they settled
    imageCalls,     \* pipeline: the generateImage calls issued
    failedCalls,    \* pipeline: the slides whose generateImage call rejected
    pptError,       \* pipeline: the value generatePresentation threw
    aiResponse,     \* pipeline: what handleSendMessage builds from the outcome
    status,         \* useVeo: status
    videoUrl,       \* useVeo: videoUrl, 0 for null, g for the object URL of generation g
    error,          \* useVeo: error, <<>> for null
    genPc,          \* useVeo: where each call of startGeneration stands
    pollCount,      \* useVeo: the checkVideoStatus calls each generation has issued
    terminal,       \* useVeo: the terminal statuses each generation has set
    cancelled,      \* useVeo: the component that uses the hook is unmounted
    observed,       \* useVeo: what the last poll of each generation met
    operation,      \* useVeo: the argument of the last call of poll, per generation
    updatedOperation, \* useVeo: what the last checkVideoStatus returned, per generation
    projects,       \* App: projects, by id
    activeProjectId, \* App: activeProjectId
    messages,       \* ChatView: messages
    isLoading,      \* ChatView: isLoading
    inflight,       \* ChatView: the handleSendMessage call awaiting its service call
    providerCalls,  \* ChatView: the service calls handleSendMessage has made
    lastEvent,      \* the last event handled and, for a submit of the form, what it did
    cards,          \* PresentationCard: the slide count and currentSlideIndex of each card
    cardEvent       \* PresentationCard: the last click on a navigation button

clsVars == <<rawFailure, friendly, earlier, otherCalls>>

pptVars == <<pptPc, stage1Call, responseText, skeleton, presentationData,
             promises, settleOrder, imageCalls, failedCalls, pptError, aiResponse>>

veoVars == <<status, videoUrl, error, genPc, pollCount, terminal, cancelled, observed,
             operation, updatedOperation>>

chatVars == <<projects, activeProjectId, messages, isLoading, inflight,
              providerCalls, lastEvent>>

cardVars == <<cards, cardEvent>>

vars == <<clsVars, pptVars, veoVars, chatVars, cardVars>>

ChatIdle ==
    /\ projects = [p \in ProjIds |-> [history |-> <<>>, versions |-> <<>>]]
    /\ activeProjectId = "projA"
    /\ messages = <<>>
    /\ isLoading = FALSE
    /\ inflight = NoReq
    /\ providerCalls = <<>>
    /\ lastEvent = OtherEvent("none")

CardIdle ==
    /\ cards = [c \in 1..MaxCards |-> NoCard]
    /\ cardEvent = NoCardEvent

VeoIdle ==
    /\ status = "idle"
    /\ videoUrl = 0
    /\ error = <<>>
    /\ genPc = [g \in Gens |-> "unstarted"]
    /\ pollCount = [g \in Gens |-> 0]
    /\ terminal = [g \in Gens |-> <<>>]
    /\ cancelled = FALSE
    /\ observed = [g \in Gens |-> NotObserved]
    /\ operation = [g \in Gens |-> NoOperation]
    /\ updatedOperation = [g \in Gens |-> NoOperation]

NoResponse == [text |-> <<>>, hasJson |-> FALSE, jsonContent |-> NoDoc]

ClsIdle ==
    /\ rawFailure = NoError
    /\ friendly = <<>>
    /\ earlier = {}
    /\ otherCalls = 0

PptIdle ==
    /\ pptPc = "idle"
    /\ stage1Call = NoCall
    /\ responseText = <<>>
    /\ skeleton = NoDoc
    /\ presentationData = NoDoc
    /\ promises = <<>>
    /\ settleOrder = <<>>
    /\ imageCalls = <<>>
    /\ failedCalls = {}
    /\ pptError = NoError
    /\ aiResponse = NoResponse


(***************************************************************************)
(* Specification of the classifier alone: any raw failure and the calls.    *)
(***************************************************************************)
ClsInit ==
    /\ rawFailure \in RawFailures
    /\ friendly = <<>>
    /\ earlier = {}
    /\ otherCalls = 0
    /\ PptIdle
    /\ VeoIdle
    /\ ChatIdle
    /\ CardIdle

\* getFriendlyErrorMessage(rawFailure), called for the first time or again.
Classify ==
    /\ friendly' = GetFriendlyErrorMessage(rawFailure)
    /\ earlier' = IF friendly = <<>> THEN earlier ELSE earlier \cup {friendly}
    /\ UNCHANGED <<rawFailure, otherCalls, pptVars, veoVars, chatVars, cardVars>>

\* getFriendlyErrorMessage called with another failure (one call per failed
\* request at most): the function keeps no state, the call leaves no trace
\* but its count.
ClassifyOther ==
    /\ otherCalls < MaxRequests
    /\ otherCalls' = otherCalls + 1
    /\ UNCHANGED <<rawFailure, friendly, earlier, pptVars, veoVars, chatVars, cardVars>>

ClsNext ==
    \/ Classify
    \/ ClassifyOther

SpecClassify == ClsInit /\ [][ClsNext]_vars

\* C10: a raw failure whose message contains "429" is classified RateLimited,
\* unless the higher-priority invalid-credential pattern is also present.
C10_RateLimitedUnlessAuth ==
    (friendly # <<>> /\ Includes(ErrorMessageOf(rawFailure), "429")
       /\ ~Includes(ErrorMessageOf(rawFailure), "API key not valid"))
        => KindOf(friendly) = "RateLimited"

\* C10 as stated: every raw failure containing "429" is classified RateLimited.
C10_Original ==
    (friendly # <<>> /\ Includes(ErrorMessageOf(rawFailure), "429"))
        => KindOf(friendly) = "RateLimited"

\* A message with "429" and no other pattern was classified RateLimited.
C10_Witness ==
    /\ friendly = <<RateLimitedText>>
    /\ Includes(rawFailure.message, "429")
    /\ ~TestI(rawFailure.message, "rate limit")

RuleOrder ==
    <<"Authentication", "RateLimited", "ContentBlocked", "DataFormat", "CredentialScope">>

\* The condition of the rule of a kind, on a raw failure.
MatchesRule(kind, failure) ==
    LET errorMessage == ErrorMessageOf(failure) IN
    CASE kind = "Authentication" -> Includes(errorMessage, "API key not valid")
      [] kind = "RateLimited" ->
            Includes(errorMessage, "429") \/ TestI(errorMessage, "rate limit")
      [] kind = "ContentBlocked" ->
            TestI(errorMessage, "safety") \/ TestI(errorMessage, "blocked")
      [] kind = "DataFormat" -> failure.name = "SyntaxError"
      [] kind = "CredentialScope" ->
            Includes(errorMessage, "Requested entity was not found.")

\* The kind of the first rule in the order that matches, or "Unknown".
FirstMatch(failure) ==
    IF \E i \in DOMAIN RuleOrder : MatchesRule(RuleOrder[i], failure)
    THEN RuleOrder[CHOOSE i \in DOMAIN RuleOrder :
                      /\ MatchesRule(RuleOrder[i], failure)
                      /\ \A j \in 1..(i - 1) : ~MatchesRule(RuleOrder[j], failure)]
    ELSE "Unknown"

\* The fixed message of a kind other than Unknown.
FixedTextOf(kind) ==
    CASE kind = "Authentication" -> AuthenticationText
      [] kind = "RateLimited" -> RateLimitedText
      [] kind = "ContentBlocked" -> ContentBlockedText
      [] kind = "DataFormat" -> DataFormatText
      [] kind = "CredentialScope" -> CredentialScopeText

\* C14: the classifier returns the kind of the first rule that matches, in
\* the order Authentication, RateLimited, ContentBlocked, DataFormat,
\* CredentialScope, and Unknown when none does; a kind other than Unknown
\* comes with its fixed message.
C14_PriorityOrder ==
    friendly # <<>> =>
        LET kind == FirstMatch(rawFailure) IN
        /\ KindOf(friendly) = kind
        /\ kind # "Unknown" => friendly = <<FixedTextOf(kind)>>
        /\ kind = "Unknown" => Head(friendly) = UnknownPrefix

\* A SyntaxError whose message matches the safety rule and the
\* entity-not-found rule was classified ContentBlocked.
C14_Witness ==
    /\ friendly = <<ContentBlockedText>>
    /\ rawFailure.name = "SyntaxError"
    /\ Includes(rawFailure.message, "Requested entity was not found.")

\* No rule of the classifier matches the failure.
MatchesNone(failure) == FirstMatch(failure) = "Unknown"

\* C15: a raw failure that matches no rule gets the fixed prefix "An
\* unexpected error occurred: " followed by its message, word for word; an
\* empty message is replaced by String(error).
C15_UnknownKeepsMessage ==
    (friendly # <<>> /\ MatchesNone(rawFailure)) =>
        /\ KindOf(friendly) = "Unknown"
        /\ friendly = <<UnknownPrefix>> \o ErrorMessageOf(rawFailure)
        /\ rawFailure.message # <<>> => Tail(friendly) = rawFailure.message

\* C15 as stated: the resulting message equals the input message.
C15_Original ==
    (friendly # <<>> /\ MatchesNone(rawFailure)) =>
        /\ KindOf(friendly) = "Unknown"
        /\ friendly = rawFailure.message

\* A failure with a message of two words that matches no rule was classified.
C15_Witness ==
    /\ friendly # <<>>
    /\ MatchesNone(rawFailure)
    /\ rawFailure.message = <<"other", "other">>

(***************************************************************************)
(* Specification of the presentation pipeline: one GeneratePPT request,    *)
(* from the call of generatePresentation (ChatView line 130) to the        *)
(* message handleSendMessage builds from its outcome.                      *)
(***************************************************************************)
PptInit ==
    /\ ClsIdle
    /\ PptIdle
    /\ VeoIdle
    /\ ChatIdle
    /\ CardIdle

\* generatePresentation up to its first await: the stage-1 call is issued.
PptStart ==
    /\ pptPc = "idle"
    /\ \E useWebSearch \in BOOLEAN :
          stage1Call' = [useWebSearch |-> useWebSearch, attempts |-> 1,
                         config |-> Stage1Config(useWebSearch)]
    /\ pptPc' = "stage1"
    /\ UNCHANGED <<responseText, skeleton, presentationData, promises,
                   settleOrder, imageCalls, failedCalls, pptError, aiResponse, clsVars, veoVars, chatVars, cardVars>>

\* The stage-1 call rejects: generatePresentation throws the provider's error.
Stage1Fail ==
    /\ pptPc = "stage1"
    /\ IF CallsAgain(stage1Call.attempts)
       THEN /\ stage1Call' = [stage1Call EXCEPT !.attempts = @ + 1]
            /\ UNCHANGED <<pptPc, pptError>>
       ELSE /\ \E m \in Messages :
                  pptError' = [name |-> "Error", message |-> m]
            /\ pptPc' = "thrown"
            /\ UNCHANGED stage1Call
    /\ UNCHANGED <<responseText, skeleton, presentationData,
                   promises, settleOrder, imageCalls, failedCalls, aiResponse, clsVars, veoVars, chatVars, cardVars>>

\* The stage-1 call resolves with a text that is no JSON after sanitising:
\* JSON.parse throws a SyntaxError (line 211).
Stage1ParseFails ==
    /\ pptPc = "stage1"
    /\ \E text \in Texts :
          /\ ~JsonValid(StripFence(text))
          /\ responseText' = text
          /\ \E m \in SyntaxErrorMessages(StripFence(text)) :
                pptError' = [name |-> "SyntaxError", message |-> m]
    /\ pptPc' = "thrown"
    /\ UNCHANGED <<stage1Call, skeleton, presentationData, promises,
                   settleOrder, imageCalls, failedCalls, aiResponse, clsVars, veoVars, chatVars, cardVars>>

\* The stage-1 call resolves with a text that parses to a document without
\* slides: it is returned as parsed (lines 213-215).
Stage1NoSlides ==
    /\ pptPc = "stage1"
    /\ \E text \in Texts, doc \in Docs :
          /\ JsonValid(StripFence(text))
          /\ SkipsStage2(doc)
          /\ responseText' = text
          /\ skeleton' = doc
          /\ presentationData' = doc
    /\ pptPc' = "returned"
    /\ UNCHANGED <<stage1Call, promises, settleOrder, imageCalls, failedCalls,
                   pptError, aiResponse, clsVars, veoVars, chatVars, cardVars>>

\* The stage-1 call resolves with a text that parses to a document with
\* slides: the map callback runs for every slide (lines 218-228) and the
\* function awaits Promise.all (line 230).
Stage1Slides ==
    /\ pptPc = "stage1"
    /\ \E text \in Texts, doc \in Docs :
          /\ JsonValid(StripFence(text))
          /\ ~SkipsStage2(doc)
          /\ responseText' = text
          /\ skeleton' = doc
          /\ presentationData' = doc
          /\ IF doc.hasSlides
             THEN /\ promises' = [i \in 1..Len(doc.slides) |-> MakePromise(doc.slides[i])]
                  /\ imageCalls' = CallsFrom(doc.slides, 1)
                  /\ settleOrder' = SettledAtStart(doc.slides, 1)
                  /\ pptPc' = "stage2"
                  /\ UNCHANGED pptError
             ELSE \* undefined.map: a TypeError
                  /\ pptError' = [name |-> "Error", message |-> <<"other">>]
                  /\ pptPc' = "thrown"
                  /\ UNCHANGED <<promises, imageCalls, settleOrder>>
    /\ UNCHANGED <<stage1Call, failedCalls, aiResponse, clsVars, veoVars, chatVars, cardVars>>

\* The image call of slide i resolves.
ImageResolves(i) ==
    /\ pptPc = "stage2"
    /\ i <= Len(promises)
    /\ promises[i].state = "pending"
    /\ promises' = [promises EXCEPT ![i] = OnImageFulfilled(promises[i].value, DataUrl)]
    /\ settleOrder' = Append(settleOrder, i)
    /\ UNCHANGED <<pptPc, stage1Call, responseText, skeleton, presentationData,
                   imageCalls, failedCalls, pptError, aiResponse, clsVars, veoVars, chatVars, cardVars>>

\* The image call of slide i rejects.
ImageRejects(i) ==
    /\ pptPc = "stage2"
    /\ i <= Len(promises)
    /\ promises[i].state = "pending"
    /\ IF CallsAgain(AttemptsFor(imageCalls, i))
       THEN /\ imageCalls' = Append(imageCalls,
                                    [prompt |-> promises[i].value.imagePrompt,
                                     aspectRatio |-> "16:9", slide |-> i])
            /\ UNCHANGED <<promises, settleOrder, failedCalls>>
       ELSE /\ promises' = [promises EXCEPT ![i] = OnImageRejected(promises[i].value)]
            /\ settleOrder' = Append(settleOrder, i)
            /\ failedCalls' = failedCalls \cup {i}
            /\ UNCHANGED imageCalls
    /\ UNCHANGED <<pptPc, stage1Call, responseText, skeleton, presentationData,
                   pptError, aiResponse, clsVars, veoVars, chatVars, cardVars>>

\* Promise.all settles (line 230): it rejects as soon as one branch has
\* rejected, and fulfils once every branch has fulfilled; the function then
\* stores the values and returns (line 232).
Join ==
    /\ pptPc = "stage2"
    /\ IF \E i \in 1..Len(promises) : promises[i].state = "rejected"
       THEN /\ pptPc' = "thrown"
            /\ pptError' = [name |-> "Error", message |-> <<"other">>]
            /\ UNCHANGED presentationData
       ELSE /\ PromiseAllFulfils(promises)
            /\ presentationData' =
                  [presentationData EXCEPT !.slides = PromiseAllValues(promises, settleOrder)]
            /\ pptPc' = "returned"
            /\ UNCHANGED pptError
    /\ UNCHANGED <<stage1Call, responseText, skeleton, promises, settleOrder,
                   imageCalls, failedCalls, aiResponse, clsVars, veoVars, chatVars, cardVars>>

\* ChatView lines 130-133: the result message of a returned document.
PptDeliver ==
    /\ pptPc = "returned"
    /\ aiResponse' = [text |-> <<PptSuccessText>>, hasJson |-> TRUE,
                      jsonContent |-> presentationData]
    /\ pptPc' = "done"
    /\ UNCHANGED <<stage1Call, responseText, skeleton, presentationData,
                   promises, settleOrder, imageCalls, failedCalls, pptError, clsVars, veoVars, chatVars, cardVars>>

\* ChatView lines 152-154: the error message of a thrown value.
PptCatch ==
    /\ pptPc = "thrown"
    /\ aiResponse' = [text |-> GetFriendlyErrorMessage(pptError), hasJson |-> FALSE,
                      jsonContent |-> NoDoc]
    /\ pptPc' = "done"
    /\ UNCHANGED <<stage1Call, responseText, skeleton, presentationData,
                   promises, settleOrder, imageCalls, failedCalls, pptError, clsVars, veoVars, chatVars, cardVars>>

PptNext ==
    \/ PptStart
    \/ Stage1Fail
    \/ Stage1ParseFails
    \/ Stage1NoSlides
    \/ Stage1Slides
    \/ \E i \in 1..MaxSlides : ImageResolves(i)
    \/ \E i \in 1..MaxSlides : ImageRejects(i)
    \/ Join
    \/ PptDeliver
    \/ PptCatch

SpecPipeline == PptInit /\ [][PptNext]_vars

\* C1: a returned document has as many slides as the skeleton, and slide i
\* carries the slideTitle and content of slide i of the skeleton, whatever
\* the order in which the image calls settled.
C1_OrderPreserved ==
    (pptPc \in { "returned", "done" } /\ Len(skeleton.slides) >= 1) =>
        /\ Len(presentationData.slides) = Len(skeleton.slides)
        /\ \A i \in 1..Len(skeleton.slides) :
              /\ presentationData.slides[i].slideTitle = skeleton.slides[i].slideTitle
              /\ presentationData.slides[i].content = skeleton.slides[i].content

\* Two slides that differ, settled in the reverse of the skeleton order.
C1_Witness ==
    /\ pptPc = "returned"
    /\ Len(skeleton.slides) >= 2
    /\ skeleton.slides[1].slideTitle # skeleton.slides[2].slideTitle
    /\ Len(settleOrder) >= 2
    /\ settleOrder[1] = 2
    /\ settleOrder[2] = 1

\* C2: once stage 2 has started the function never throws, and in the
\* returned document every slide whose image call failed has imageUrl null.
C2_FailuresAbsorbed ==
    (promises # <<>>) =>
        /\ pptPc # "thrown"
        /\ pptError = NoError
        /\ \A i \in failedCalls : promises[i].value.imageUrl = "null"
        /\ pptPc \in { "returned", "done" } =>
              \A i \in failedCalls : presentationData.slides[i].imageUrl = "null"

\* Every image call of a document of two slides failed, and it is returned.
C2_Witness ==
    /\ pptPc = "done"
    /\ aiResponse.hasJson
    /\ Len(skeleton.slides) >= 2
    /\ failedCalls = 1..Len(skeleton.slides)

\* C3: a parsed skeleton without slides is returned as parsed; no image call
\* is issued and stage 2 is never entered.
C3_ZeroSlidesSkipStage2 ==
    (skeleton # NoDoc /\ Len(skeleton.slides) = 0) =>
        /\ pptPc \in { "returned", "done" }
        /\ presentationData = skeleton
        /\ imageCalls = <<>>
        /\ promises = <<>>

\* A document with an empty slides array was returned and delivered.
C3_Witness ==
    /\ pptPc = "done"
    /\ skeleton # NoDoc
    /\ skeleton.hasSlides
    /\ Len(skeleton.slides) = 0
    /\ aiResponse.jsonContent = skeleton

\* C16: generatePresentation leaves stage 2 only by returning, and only when
\* every branch has settled; a branch whose image call failed leaves the
\* siblings' images in the returned document.
C16_JoinWaitsForAll ==
    (promises # <<>> /\ pptPc # "stage2") =>
        /\ pptPc \in { "returned", "done" }
        /\ \A i \in 1..Len(promises) : promises[i].state = "fulfilled"
        /\ \A i \in 1..Len(promises) :
              (skeleton.slides[i].imagePrompt # "" /\ i \notin failedCalls)
                  => presentationData.slides[i].imageUrl = DataUrl

\* The first branch failed while the second was pending; the second resolved
\* afterwards and its image is in the returned document.
C16_Witness ==
    /\ pptPc = "returned"
    /\ settleOrder = <<1, 2>>
    /\ failedCalls = {1}
    /\ presentationData.slides[2].imageUrl = DataUrl

\* The slides of a document that have a non-empty imagePrompt.
WithPrompt(doc) ==
    { i \in 1..Len(doc.slides) : doc.slides[i].imagePrompt # "" }

\* C17: stage 2 issues one generateImage call, with aspect ratio 16:9 and the
\* slide's prompt, for each slide that has a non-empty imagePrompt and none
\* for the others; a slide without a prompt is returned with imageUrl null.
C17_OneCallPerPrompt ==
    promises # <<>> =>
        /\ Len(imageCalls) = Cardinality(WithPrompt(skeleton))
        /\ { imageCalls[k].slide : k \in 1..Len(imageCalls) } = WithPrompt(skeleton)
        /\ \A k \in 1..Len(imageCalls) :
              /\ imageCalls[k].aspectRatio = "16:9"
              /\ imageCalls[k].prompt = skeleton.slides[imageCalls[k].slide].imagePrompt
        /\ pptPc \in { "returned", "done" } =>
              \A i \in (1..Len(skeleton.slides)) \ WithPrompt(skeleton) :
                  presentationData.slides[i].imageUrl = "null"

\* A returned document of two slides, the first without a prompt, the second
\* with one: one call was issued.
C17_Witness ==
    /\ pptPc = "returned"
    /\ WithPrompt(skeleton) = {2}
    /\ Len(imageCalls) = 1
    /\ presentationData.slides[1].imageUrl = "null"
    /\ presentationData.slides[2].imageUrl = DataUrl

\* C20: the stage-1 call carries the response schema exactly when web search
\* is not requested and the search tool exactly when it is; with web search
\* the contents are the prose prompt that describes the JSON structure.
C20_SchemaIffNoSearch ==
    pptPc # "idle" =>
        LET c == stage1Call.config
            u == stage1Call.useWebSearch
        IN  /\ c.responseSchema <=> ~u
            /\ c.searchTool <=> u
            /\ c.responseSchema # c.searchTool
            /\ u => c.contents = "presentationPrompt"

\* A request with web search was answered with a document.
C20_Witness ==
    /\ pptPc = "done"
    /\ aiResponse.hasJson
    /\ stage1Call.useWebSearch
    /\ stage1Call.config.searchTool

\* C21: in a returned document the title is the skeleton's, and every slide
\* has the slideTitle, content and imagePrompt of the skeleton's slide at its
\* position, whether its image call resolved, rejected or was not issued.
C21_OnlyImageUrlChanges ==
    (pptPc \in { "returned", "done" }) =>
        /\ presentationData.presentationTitle = skeleton.presentationTitle
        /\ presentationData.hasSlides = skeleton.hasSlides
        /\ Len(presentationData.slides) = Len(skeleton.slides)
        /\ \A i \in 1..Len(skeleton.slides) :
              /\ presentationData.slides[i].slideTitle = skeleton.slides[i].slideTitle
              /\ presentationData.slides[i].content = skeleton.slides[i].content
              /\ presentationData.slides[i].imagePrompt = skeleton.slides[i].imagePrompt

\* A returned document whose first slide's image call failed and whose second
\* slide's image call resolved.
C21_Witness ==
    /\ pptPc = "returned"
    /\ Len(skeleton.slides) = 2
    /\ failedCalls = {1}
    /\ presentationData.slides[1].imageUrl = "null"
    /\ presentationData.slides[2].imageUrl = DataUrl
    /\ presentationData.slides[2].imagePrompt # ""

C9_ParseFailureIsDataFormat ==
    (pptPc = "done" /\ pptError.name = "SyntaxError") =>
        /\ KindOf(aiResponse.text) = "DataFormat"
        /\ ~aiResponse.hasJson

\* A response that is one JSON body between an opening fence, "```json" or a
\* bare "```", and a closing "```", with optional white space around the body.
WrapsDoc(text) ==
    /\ Len(text) >= 3
    /\ text[1] \in AnyFence
    /\ text[Len(text)] = "F"
    /\ Trim(SubSeq(text, 2, Len(text) - 1)) = <<"DOC">>

\* C12: a stage-1 response that is a JSON body wrapped in fence delimiters,
\* with or without the language tag, is sanitised to the text the bare body
\* is sanitised to, and so parses as the bare body does.
C12_FencedParsesAsBare ==
    WrapsDoc(responseText) =>
        /\ StripFence(responseText) = StripFence(<<"DOC">>)
        /\ pptError.name # "SyntaxError"

(***************************************************************************)
(* Specification of the video poller: calls of startGeneration, the        *)
(* provider's answers, the 10-second timers, and the unmount of the        *)
(* component that uses the hook.                                           *)
(***************************************************************************)
VeoInit ==
    /\ ClsIdle
    /\ PptIdle
    /\ VeoIdle
    /\ ChatIdle
    /\ CardIdle

\* Lines 40-48: the catch block of startGeneration.
CatchError(g, message) ==
    /\ error' = VeoErrorText(message)
    /\ status' = "error"
    /\ terminal' = [terminal EXCEPT ![g] = Append(@, "error")]
    /\ UNCHANGED videoUrl

\* A throw inside poll.  The first poll is awaited inside the try block
\* (line 38); a later poll is started by the timer callback (line 34), which
\* drops the promise poll returns, so its rejection reaches no handler.
PollThrows(g, message) ==
    IF pollCount[g] = 1
    THEN CatchError(g, message)
    ELSE UNCHANGED <<status, videoUrl, error, terminal>>

\* Lines 12-17: startGeneration resets the state and calls generateVideo.
StartGeneration(g) ==
    /\ ~cancelled
    /\ genPc[g] = "unstarted"
    /\ \A h \in Gens : h < g => genPc[h] # "unstarted"
    /\ status' = "generating"
    /\ videoUrl' = 0
    /\ error' = <<>>
    /\ genPc' = [genPc EXCEPT ![g] = "submitting"]
    /\ UNCHANGED <<pollCount, terminal, cancelled, observed, operation, updatedOperation,
                   clsVars, pptVars, chatVars, cardVars>>

\* generateVideo rejects: the catch block runs.
SubmitRejects(g) ==
    /\ genPc[g] = "submitting"
    /\ \E m \in VeoErrorMessages : CatchError(g, m)
    /\ genPc' = [genPc EXCEPT ![g] = "ended"]
    /\ UNCHANGED <<pollCount, cancelled, observed, operation, updatedOperation,
                   clsVars, pptVars, chatVars, cardVars>>

\* generateVideo resolves: poll(initialOperation) calls checkVideoStatus.
SubmitResolves(g) ==
    /\ genPc[g] = "submitting"
    /\ genPc' = [genPc EXCEPT ![g] = "checking"]
    /\ pollCount' = [pollCount EXCEPT ![g] = @ + 1]
    /\ operation' = [operation EXCEPT ![g] = InitialOperation]
    /\ UNCHANGED <<status, videoUrl, error, terminal, cancelled, observed,
                   updatedOperation, clsVars, pptVars, chatVars, cardVars>>

\* checkVideoStatus rejects.
CheckRejects(g) ==
    /\ genPc[g] = "checking"
    /\ \E m \in VeoErrorMessages :
          /\ PollThrows(g, m)
          /\ observed' = [observed EXCEPT ![g] =
                             [outcome |-> "rejected", thrown |-> "check", message |-> m,
                              fetch |-> "none"]]
    /\ genPc' = [genPc EXCEPT ![g] = "ended"]
    /\ UNCHANGED <<pollCount, cancelled, operation, updatedOperation,
                   clsVars, pptVars, chatVars, cardVars>>

\* checkVideoStatus resolves (lines 22-35).
CheckResolves(g) ==
    /\ genPc[g] = "checking"
    /\ \E outcome \in PollOutcomes :
          IF outcome = "notDone"
          THEN \* line 34: setTimeout(() => poll(updatedOperation), 10000)
               /\ genPc' = [genPc EXCEPT ![g] = "scheduled"]
               /\ observed' = [observed EXCEPT ![g] =
                                  [outcome |-> outcome, thrown |-> "none", message |-> <<>>,
                                   fetch |-> "none"]]
               /\ UNCHANGED <<status, videoUrl, error, terminal>>
          ELSE IF HasDownloadLink(outcome)
          THEN \* line 25: fetch of the download link
               /\ genPc' = [genPc EXCEPT ![g] = "fetching"]
               /\ observed' = [observed EXCEPT ![g] =
                                  [outcome |-> outcome, thrown |-> "none", message |-> <<>>,
                                   fetch |-> "none"]]
               /\ UNCHANGED <<status, videoUrl, error, terminal>>
          ELSE \* line 31
               /\ PollThrows(g, <<NoLinkMessage>>)
               /\ observed' = [observed EXCEPT ![g] =
                                  [outcome |-> outcome, thrown |-> "noLink",
                                   message |-> <<NoLinkMessage>>, fetch |-> "none"]]
               /\ genPc' = [genPc EXCEPT ![g] = "ended"]
    /\ updatedOperation' = [updatedOperation EXCEPT ![g] = pollCount[g]]
    /\ UNCHANGED <<pollCount, cancelled, operation, clsVars, pptVars, chatVars, cardVars>>

\* The timer of line 34 fires: poll(updatedOperation) calls checkVideoStatus.
TimerFires(g) ==
    /\ genPc[g] = "scheduled"
    /\ pollCount[g] < MaxPolls
    /\ genPc' = [genPc EXCEPT ![g] = "checking"]
    /\ pollCount' = [pollCount EXCEPT ![g] = @ + 1]
    /\ operation' = [operation EXCEPT ![g] = TimerArgument(@, updatedOperation[g])]
    /\ UNCHANGED <<status, videoUrl, error, terminal, cancelled, observed,
                   updatedOperation, clsVars, pptVars, chatVars, cardVars>>

\* Lines 25-29: fetch and blob resolve; the status of the response is not
\* looked at.
FetchResolves(g) ==
    /\ genPc[g] = "fetching"
    /\ \E r \in FetchResponses : observed' = [observed EXCEPT ![g].fetch = r]
    /\ videoUrl' = g
    /\ status' = "success"
    /\ terminal' = [terminal EXCEPT ![g] = Append(@, "success")]
    /\ genPc' = [genPc EXCEPT ![g] = "ended"]
    /\ UNCHANGED <<error, pollCount, cancelled, operation, updatedOperation,
                   clsVars, pptVars, chatVars, cardVars>>

\* fetch or blob rejects.
FetchRejects(g) ==
    /\ genPc[g] = "fetching"
    /\ \E m \in VeoErrorMessages :
          /\ PollThrows(g, m)
          /\ observed' = [observed EXCEPT ![g].thrown = "fetch", ![g].message = m]
    /\ genPc' = [genPc EXCEPT ![g] = "ended"]
    /\ UNCHANGED <<pollCount, cancelled, operation, updatedOperation,
                   clsVars, pptVars, chatVars, cardVars>>

\* The component that uses the hook unmounts: the caller's interest in the
\* generation ends.  The hook registers no effect clean-up and keeps no flag.
Unmount ==
    /\ ~cancelled
    /\ cancelled' = TRUE
    /\ UNCHANGED <<status, videoUrl, error, genPc, pollCount, terminal, observed,
                   operation, updatedOperation, clsVars, pptVars, chatVars, cardVars>>

VeoNext ==
    \/ \E g \in Gens : StartGeneration(g)
    \/ \E g \in Gens : SubmitRejects(g)
    \/ \E g \in Gens : SubmitResolves(g)
    \/ \E g \in Gens : CheckRejects(g)
    \/ \E g \in Gens : CheckResolves(g)
    \/ \E g \in Gens : TimerFires(g)
    \/ \E g \in Gens : FetchResolves(g)
    \/ \E g \in Gens : FetchRejects(g)
    \/ Unmount

SpecPoller == VeoInit /\ [][VeoNext]_vars

\* C4: every generation whose handle was submitted and whose poll chain has
\* come to its end has set exactly one terminal status ('success' or 'error').
C4_OneTerminalState ==
    \A g \in Gens :
        (genPc[g] = "ended" /\ pollCount[g] >= 1) => Len(terminal[g]) = 1

\* C5: once the caller has cancelled interest, no checkVideoStatus call is
\* issued any more.
C5_NoPollAfterCancel ==
    [][cancelled => pollCount' = pollCount]_vars

\* C11: when a poll, the first or a later one, fails with the message
\* "Requested entity was not found.", the hook goes to status 'error' with
\* the re-select-API-key text.
C11_EntityNotFoundSurfaced ==
    [][\A g \in Gens :
          (observed'[g] # observed[g] /\ observed'[g].thrown # "none"
             /\ Includes(observed'[g].message, "Requested entity was not found."))
          => (status' = "error" /\ error' = <<VeoKeyErrorText>>)
    ]_vars

\* C18: when a poll ends by a throw after done = true (failure payload or no
\* download link) or by a throw of the fetch, on whichever attempt, the hook
\* goes to status 'error' and records that one terminal state; a failure
\* payload is not reported with the text of the missing download link.
C18_FailureTransitions ==
    [][\A g \in Gens :
          (observed'[g] # observed[g] /\ observed'[g].thrown \in { "noLink", "fetch" })
          => /\ status' = "error"
             /\ terminal'[g] = Append(terminal[g], "error")
             /\ observed'[g].outcome = "doneWithError" => error' # <<NoLinkMessage>>
    ]_vars

\* C19: status becomes 'success' only in the step in which the download link
\* of a poll that reported done with a link has been fetched with success,
\* and whenever status is 'success' a video URL is set.
C19_SuccessOnlyAfterFetch ==
    [][/\ status' = "success" => videoUrl' # 0
       /\ (status' = "success" /\ (status # "success" \/ terminal' # terminal)) =>
             \E g \in Gens :
                /\ genPc[g] = "fetching"
                /\ observed[g].outcome = "doneWithLink"
                /\ observed[g].thrown = "none"
                /\ observed'[g].fetch = "ok"
                /\ videoUrl' = g
    ]_vars

\* C26: once startGeneration has been called again, a step of the poll chain
\* of an earlier generation changes neither status, nor videoUrl, nor error.
C26_EarlierChainSilent ==
    [][\A g \in Gens :
          (genPc'[g] # genPc[g] /\ \E h \in Gens : h > g /\ genPc[h] # "unstarted") =>
              /\ status' = status
              /\ videoUrl' = videoUrl
              /\ error' = error
    ]_vars

\* C27: the polls of a generation are strictly sequential.  A call of
\* checkVideoStatus is issued only when no poll of the generation is in
\* flight; the first is issued when generateVideo has resolved, with the
\* handle it returned, and every later one from the one timer that the
\* previous poll scheduled after it had returned done = false, with the
\* handle that poll returned.  A timer is scheduled only by a poll in flight.
C27_PollsSequential ==
    [][\A g \in Gens :
          /\ pollCount'[g] # pollCount[g] =>
                /\ pollCount'[g] = pollCount[g] + 1
                /\ genPc'[g] = "checking"
                /\ IF pollCount[g] = 0
                   THEN /\ genPc[g] = "submitting"
                        /\ operation'[g] = InitialOperation
                   ELSE /\ genPc[g] = "scheduled"
                        /\ observed[g].outcome = "notDone"
                        /\ observed[g].thrown = "none"
                        /\ updatedOperation[g] = pollCount[g]
                        /\ operation'[g] = updatedOperation[g]
          /\ (genPc'[g] = "scheduled" /\ genPc[g] # "scheduled") =>
                /\ genPc[g] = "checking"
                /\ pollCount'[g] = pollCount[g]
                /\ observed'[g].outcome = "notDone"
          /\ operation'[g] # operation[g] => pollCount'[g] # pollCount[g]
    ]_vars

\* The third poll of a generation is in flight with the handle the second
\* returned, while another generation has a timer scheduled.
C27_Witness ==
    /\ pollCount[1] = 3
    /\ genPc[1] = "checking"
    /\ operation[1] = 2
    /\ updatedOperation[1] = 2
    /\ genPc[2] = "scheduled"

(***************************************************************************)
(* Specification of the dispatcher: submits of the input form, the         *)
(* settling of the service call, and the selection of a project.           *)
(***************************************************************************)
ChatInit ==
    /\ ClsIdle
    /\ PptIdle
    /\ VeoIdle
    /\ ChatIdle
    /\ CardIdle

\* ChatView.handleSendMessage up to the await of its service call
\* (lines 88-146): the request gets the next id, the user message and the
\* placeholder are added to messages, and the service function of the mode is
\* called.
SendMessage(prompt, mode, hasFile) ==
    LET n           == Len(providerCalls) + 1
        userMessage == UserMessage(n, prompt, hasFile)
    IN  /\ n <= MaxRequests
        /\ isLoading' = TRUE
        /\ inflight' = [id |-> n, mode |-> mode, call |-> ServiceCallFor(mode),
                        projectId |-> activeProjectId,
                        historyForApi |-> Append(messages, userMessage),
                        loadingMsg |-> LoadingMsg(n)]
        /\ messages' = messages \o <<userMessage, LoadingMsg(n)>>
        /\ providerCalls' = Append(providerCalls, ServiceCallFor(mode))

\* A submit of the form, InputBar.handleSubmit, with handleSendMessage when
\* the submit passes the checks.  The form cannot be submitted while
\* isLoading (InputBar lines 92 and 98), and a file can be attached only in
\* the modes that show the file input (lines 144-162); a change of mode
\* drops the file (lines 59-62).
HandleSubmit(prompt, mode, hasFile) ==
    /\ ~InputDisabled(isLoading)
    /\ hasFile => NeedsImageUpload(mode)
    /\ LET result == SubmitResult(prompt, mode, hasFile) IN
          /\ lastEvent' = [event |-> "submit", prompt |-> prompt, mode |-> mode,
                           hasFile |-> hasFile, result |-> result]
          /\ IF result = "sent"
             THEN SendMessage(prompt, mode, hasFile)
             ELSE UNCHANGED <<isLoading, inflight, messages, providerCalls>>
    /\ UNCHANGED <<projects, activeProjectId, clsVars, pptVars, veoVars, cardVars>>

\* handleSendMessage as InputBar calls it: with the values of a submit that
\* passed the checks of handleSubmit.
HandleSendMessage(prompt, mode, hasFile) ==
    /\ ~InputDisabled(isLoading)
    /\ hasFile => NeedsImageUpload(mode)
    /\ SubmitResult(prompt, mode, hasFile) = "sent"
    /\ SendMessage(prompt, mode, hasFile)
    /\ lastEvent' = OtherEvent("sent")
    /\ UNCHANGED <<projects, activeProjectId, clsVars, pptVars, veoVars, cardVars>>

\* The service call resolves: lines 148-150 and 158.  setMessages and
\* updateHistory receive the same list; the effect of lines 43-45 runs only
\* when the request's project is the active one, and sets that list again.
ServiceResolves ==
    /\ inflight # NoReq
    /\ LET finalHistory == FinalHistory(inflight) IN
          /\ projects' = UpdateHistory(projects, inflight.projectId, finalHistory)
          /\ messages' = finalHistory
    /\ isLoading' = FALSE
    /\ inflight' = NoReq
    /\ lastEvent' = OtherEvent("settled")
    /\ UNCHANGED <<activeProjectId, providerCalls, clsVars, pptVars, veoVars, cardVars>>

\* The service call throws: lines 152-156 and 158.
ServiceRejects ==
    /\ inflight # NoReq
    /\ \E err \in ChatErrors :
          /\ err.name = "SyntaxError" => inflight.call = "generatePresentation"
          /\ LET errorHistory == ErrorHistory(inflight, err) IN
                /\ projects' = UpdateHistory(projects, inflight.projectId, errorHistory)
                /\ messages' = errorHistory
    /\ isLoading' = FALSE
    /\ inflight' = NoReq
    /\ lastEvent' = OtherEvent("settled")
    /\ UNCHANGED <<activeProjectId, providerCalls, clsVars, pptVars, veoVars, cardVars>>

\* App.handleSelectProject (lines 63-65); ChatView is given another project
\* and its effect (lines 43-45) sets messages to that project's history.
SelectProject(id) ==
    /\ id # activeProjectId
    /\ activeProjectId' = id
    /\ messages' = projects[id].history
    /\ lastEvent' = OtherEvent("select")
    /\ UNCHANGED <<projects, isLoading, inflight, providerCalls,
                   clsVars, pptVars, veoVars, cardVars>>

ChatNext ==
    \/ \E prompt \in Prompts, mode \in Modes, hasFile \in BOOLEAN :
          HandleSendMessage(prompt, mode, hasFile)
    \/ ServiceResolves
    \/ ServiceRejects
    \/ \E id \in ProjIds : SelectProject(id)

SpecChat == ChatInit /\ [][ChatNext]_vars

(***************************************************************************)
(* Specification of the input form with the dispatcher behind it: every    *)
(* submit of the form, passing the checks or not, in one project.          *)
(***************************************************************************)
InputNext ==
    \/ \E prompt \in Prompts, mode \in Modes, hasFile \in BOOLEAN :
          HandleSubmit(prompt, mode, hasFile)
    \/ ServiceResolves
    \/ ServiceRejects

SpecInput == ChatInit /\ [][InputNext]_vars

\* An AI message built by the catch block carries a string of
\* getFriendlyErrorMessage.
IsErrorMessage(m) == m.text # <<>> /\ Head(m.text) \in FriendlyHeads

(***************************************************************************)
(* Specification of the presentation cards: the cards of the presentation  *)
(* messages shown, each with its own currentSlideIndex, and the clicks on  *)
(* their navigation buttons.                                               *)
(***************************************************************************)
CardInit ==
    /\ ClsIdle
    /\ PptIdle
    /\ VeoIdle
    /\ ChatIdle
    /\ cards \in [1..MaxCards -> { MountedCard(n) : n \in 0..MaxCardSlides }]
    /\ cardEvent = NoCardEvent

\* goToNextSlide (line 237) of card c.  The handler is taken at every index,
\* also where its button is disabled (line 266).
GoToNextSlide(c) ==
    /\ RendersSlides(cards[c])
    /\ cards' = [cards EXCEPT ![c].currentSlideIndex =
                                  NextSlideIndex(@, cards[c].totalSlides)]
    /\ cardEvent' = [card |-> c, click |-> "next", from |-> cards[c].currentSlideIndex]
    /\ UNCHANGED <<clsVars, pptVars, veoVars, chatVars>>

\* goToPrevSlide (line 238) of card c.
GoToPrevSlide(c) ==
    /\ RendersSlides(cards[c])
    /\ cards' = [cards EXCEPT ![c].currentSlideIndex = PrevSlideIndex(@)]
    /\ cardEvent' = [card |-> c, click |-> "prev", from |-> cards[c].currentSlideIndex]
    /\ UNCHANGED <<clsVars, pptVars, veoVars, chatVars>>

CardNext ==
    \/ \E c \in 1..MaxCards : GoToNextSlide(c)
    \/ \E c \in 1..MaxCards : GoToPrevSlide(c)

SpecCard == CardInit /\ [][CardNext]_vars

\* C30: in a card of a presentation with n >= 1 slides the index of the
\* current slide is within 0..n-1 after every sequence of Next and Previous,
\* so the current slide is defined; Next at the last slide and Previous at
\* the first leave the index as it is, and elsewhere they move it by one.
C30_IndexInRange ==
    /\ \A c \in 1..MaxCards :
          cards[c].totalSlides >= 1 =>
              /\ cards[c].currentSlideIndex \in 0..(cards[c].totalSlides - 1)
              /\ CurrentSlideDefined(cards[c])
    /\ cardEvent.click = "next" =>
          LET card == cards[cardEvent.card] IN
              card.currentSlideIndex =
                  IF cardEvent.from = card.totalSlides - 1
                  THEN cardEvent.from ELSE cardEvent.from + 1
    /\ cardEvent.click = "prev" =>
          LET card == cards[cardEvent.card] IN
              card.currentSlideIndex =
                  IF cardEvent.from = 0 THEN 0 ELSE cardEvent.from - 1

\* Next was clicked at the last slide of a card with three slides, and the
\* index is still that of the last slide.
C30_Witness ==
    /\ cardEvent = [card |-> 1, click |-> "next", from |-> 2]
    /\ cards[1] = [totalSlides |-> 3, currentSlideIndex |-> 2]
    /\ cards[2].currentSlideIndex = 1

(***************************************************************************)
(* Specification of the history of a project: requests in Chat mode, the   *)
(* reactions to the messages shown, the saved versions and their loading.  *)
(***************************************************************************)
\* The versions saved so far, over all projects.
SavedVersions == Len(projects["projA"].versions) + Len(projects["projB"].versions)

\* ChatView.handleReaction (lines 71-81) for a click on a reaction button of
\* the message shown at position k.  The buttons are rendered for the AI
\* messages that are not loading (App.tsx line 319).  newHistory is built from
\* the messages of ChatView and is written to the active project.
HandleReaction(k, reaction) ==
    /\ k \in 1..Len(messages)
    /\ messages[k].sender = "ai"
    /\ ~messages[k].isLoading
    /\ LET newHistory == WithReaction(messages, "ai", messages[k].id, reaction) IN
          /\ messages' = newHistory
          /\ projects' = UpdateHistory(projects, activeProjectId, newHistory)
    /\ lastEvent' = OtherEvent("reaction")
    /\ UNCHANGED <<activeProjectId, isLoading, inflight, providerCalls,
                   clsVars, pptVars, veoVars, cardVars>>

\* ChatView.handleSaveVersion (lines 55-69) with a name given to the prompt.
\* The button is not disabled while a request is in flight.  The project
\* object is replaced, so the effect of lines 43-45 sets messages to the
\* history of the project.
HandleSaveVersion ==
    /\ SavedVersions < MaxVersions
    /\ projects' = UpdateVersions(projects, activeProjectId,
                       UpdatedVersions(projects[activeProjectId].versions,
                                       SavedVersions + 1, messages))
    /\ messages' = projects[activeProjectId].history
    /\ lastEvent' = OtherEvent("save")
    /\ UNCHANGED <<activeProjectId, isLoading, inflight, providerCalls,
                   clsVars, pptVars, veoVars, cardVars>>

\* ChatView.handleSaveVersion when the prompt for the name is cancelled or
\* left empty: the return of line 57.
HandleSaveVersionNoName ==
    /\ lastEvent' = OtherEvent("saveCancelled")
    /\ UNCHANGED <<projects, messages, activeProjectId, isLoading, inflight,
                   providerCalls, clsVars, pptVars, veoVars, cardVars>>

\* App.handleSelectVersion (lines 75-83) for version v of a project: the
\* history of the project becomes the version's, the project becomes the
\* active one, and the effect of ChatView sets messages to that history.
HandleSelectVersion(projectId, v) ==
    /\ v \in 1..Len(projects[projectId].versions)
    /\ LET version == projects[projectId].versions[v] IN
          /\ projects' = UpdateHistory(projects, projectId, version.history)
          /\ messages' = version.history
    /\ activeProjectId' = projectId
    /\ lastEvent' = OtherEvent("load")
    /\ UNCHANGED <<isLoading, inflight, providerCalls, clsVars, pptVars, veoVars, cardVars>>

HistNext ==
    \/ HandleSendMessage("prompt", "Chat", FALSE)
    \/ ServiceResolves
    \/ ServiceRejects
    \/ \E id \in ProjIds : SelectProject(id)
    \/ \E k \in 1..(2 * MaxRequests), reaction \in Reactions : HandleReaction(k, reaction)
    \/ HandleSaveVersion
    \/ HandleSaveVersionNoName
    \/ \E projectId \in ProjIds, v \in 1..MaxVersions : HandleSelectVersion(projectId, v)

SpecHistory == ChatInit /\ [][HistNext]_vars

\* C23: the history App stores for a project never holds a message with
\* isLoading = TRUE, under any interleaving of sends, reactions and
\* completions.
C23_NoPlaceholderPersisted ==
    \A p \in ProjIds :
        \A k \in 1..Len(projects[p].history) : ~projects[p].history[k].isLoading

\* C24: the completion of a request only appends: every message other than
\* the placeholder, with its reaction, that is in the history of the request's
\* project just before the completion is in it afterwards, also when the
\* history was changed while the request was in flight.
C24_CompletionOnlyAppends ==
    [][(inflight # NoReq /\ inflight' = NoReq) =>
          LET before == projects[inflight.projectId].history
              after  == projects'[inflight.projectId].history
          IN  \A k \in 1..Len(before) :
                  ~before[k].isLoading => \E j \in 1..Len(after) : after[j] = before[k]
    ]_vars

\* C25: project isolation.  A step changes the history of no project but
\* the one the request in flight was sent in, and whenever no request is in
\* flight the messages ChatView shows are the history of the active project.
C25_ProjectIsolation ==
    [][/\ \A p \in ProjIds :
              projects'[p].history # projects[p].history => p = inflight.projectId
       /\ inflight' = NoReq => messages' = projects'[activeProjectId'].history
    ]_vars

(***************************************************************************)
(* Specification of the versions of a project: requests in Chat mode, the  *)
(* selection of a project, the saving of a version and its loading.        *)
(***************************************************************************)
VersNext ==
    \/ HandleSendMessage("prompt", "Chat", FALSE)
    \/ ServiceResolves
    \/ ServiceRejects
    \/ \E id \in ProjIds : SelectProject(id)
    \/ HandleSaveVersion
    \/ HandleSaveVersionNoName
    \/ \E projectId \in ProjIds, v \in 1..MaxVersions : HandleSelectVersion(projectId, v)

SpecVersions == ChatInit /\ [][VersNext]_vars

LoadingModes == { "Chat", "Analyze Image" }

LoadingNext ==
    \/ \E prompt \in Prompts, mode \in LoadingModes, hasFile \in BOOLEAN :
          HandleSubmit(prompt, mode, hasFile)
    \/ ServiceResolves
    \/ ServiceRejects
    \/ \E id \in ProjIds : SelectProject(id)

SpecLoading ==
    /\ ChatInit
    /\ [][LoadingNext]_vars
    /\ WF_vars(ServiceResolves \/ ServiceRejects)

\* C28: isLoading is TRUE exactly from the start of handleSendMessage to the
\* settling of its service call, with a result or with an error; a request
\* that was sent settles and isLoading is FALSE again; and the form accepts a
\* submit exactly while isLoading is FALSE.
C28_LoadingWhileInFlight ==
    /\ [](isLoading <=> inflight # NoReq)
    /\ [](~isLoading <=> ENABLED HandleSubmit("", "Chat", FALSE))
    /\ [][/\ lastEvent'.event = "submit" => ~isLoading
          /\ (isLoading' /\ ~isLoading) =>
                /\ lastEvent'.event = "submit"
                /\ lastEvent'.result = "sent"
                /\ Len(providerCalls') = Len(providerCalls) + 1
          /\ (lastEvent'.event = "submit" /\ lastEvent'.result = "sent") => isLoading'
          /\ (isLoading /\ ~isLoading') => (inflight # NoReq /\ inflight' = NoReq)
          /\ (inflight # NoReq /\ inflight' # inflight) => ~isLoading'
       ]_vars
    /\ (isLoading ~> ~isLoading)

\* A second request is in flight after the first ended with an error, and
\* another project was selected meanwhile.
C28_Witness ==
    /\ isLoading
    /\ inflight.id = 2
    /\ inflight.projectId = "projA"
    /\ activeProjectId = "projB"
    /\ IsErrorMessage(projects["projA"].history[2])

\* C6: when a call of handleSendMessage ends, the history of the project it
\* was sent in is the history it was sent with, the user message, and one AI
\* message that is no placeholder: either the result of the mode or the
\* classified error text, never both and never neither.
C6_ExactlyOneOutcome ==
    [][(inflight # NoReq /\ inflight' = NoReq) =>
          LET h == projects'[inflight.projectId].history
              n == Len(inflight.historyForApi)
          IN  /\ Len(h) = n + 1
              /\ SubSeq(h, 1, n) = inflight.historyForApi
              /\ h[n].sender = "user"
              /\ h[n].id = inflight.id
              /\ h[n + 1].sender = "ai"
              /\ h[n + 1].id = inflight.id
              /\ ~h[n + 1].isLoading
              /\ IsErrorMessage(h[n + 1]) # (h[n + 1].text = AiResponseFor(inflight.mode).text)
    ]_vars

\* A second request ended with an error after a first ended with a result.
C6_Witness ==
    /\ inflight = NoReq
    /\ Len(projects["projA"].history) = 4
    /\ ~IsErrorMessage(projects["projA"].history[2])
    /\ IsErrorMessage(projects["projA"].history[4])
    /\ projects["projA"].history[4].id = 2

C8_VideoCallsGenerateVideo ==
    inflight.mode = "Generate Video" => inflight.call = "generateVideo"

====
